---- MODULE Spec2Model ----
(***************************************************************************)
(* A model of account_manager.py: the UserCard transitions, the UserAccount *)
(* queries and the AccountManager operations (entitlement lookup, fetch,    *)
(* batch fetch, cancellation) over the in-memory store self.users.          *)
(*                                                                         *)
(* Every gateway call (requests.get/post/delete followed by                 *)
(* raise_for_status inside try/except HTTPError) has three outcomes:        *)
(*   "ok"            the response is a success: the try block runs;         *)
(*   "http_error"    raise_for_status raises HTTPError, which is caught;    *)
(*   "network_error" requests.get/post/delete itself raises (connection     *)
(*                   error, timeout). That statement is outside the try     *)
(*                   block, so the exception leaves the function.           *)
(* Optional values are sequences: None is <<>>, a value x is <<x>>.         *)
(* Optional[bool] is one of the strings "True", "False", "None".            *)
(***************************************************************************)
EXTENDS Integers, Sequences, FiniteSets, TLC

VARIABLES
    users,          \* AccountManager.users: user id -> <<UserAccount>> or <<>> (None)
    pc,             \* position of the running call ("idle" between calls)
    op,             \* the running (or last) top-level call and its arguments
    pre,            \* self.users when that call started
    outcome,        \* "running", "returned" or "raised" for that call
    calls,          \* the gateway calls that call has issued so far, in order
    target,         \* cancel_account: the key of the record being cancelled
    it,             \* position of the list iterator of the running loop
    active_cards,   \* block_cards_user_account: get_active_cards(), as card positions
    runs,           \* create_user_instance activations: one, or one per chunk of a batch
    args,           \* the ids, batch_size and n_process that call was given
    ret             \* what the last call returned (<<>> when nothing or not yet)

vars == <<users, pc, op, pre, outcome, calls, target, it, active_cards, runs,
          args, ret>>

----------------------------------------------------------------------------
(* Bounds of the model. *)

MaxRails == 2       \* SPEI ids of a stored record
MaxCards == 2       \* cards of a stored record, entries of a card listing
MaxAccounts == 2    \* entries of an account listing
MaxIds == 2         \* user ids passed to one fetch
MaxLookup == 3      \* user ids passed to one direct entitlement lookup
MaxProcesses == 2   \* n_process of a batch fetch

UserIds == {"u1", "u2"}
SpeiIds == {"r1", "r2"}
ParabiliumIds == {"a1"}
CardIds == <<"k1", "k2", "k3">>

Ok == "ok"
HttpError == "http_error"
NetworkError == "network_error"
Outcomes == {Ok, HttpError, NetworkError}

None == <<>>
Some(x) == <<x>>

\* UserCard.card_status, lines 104-118
CardStatuses ==
    {"ACTIVATED_NO_PIN", "ACTIVE", "BROKEN", "CANCELED", "CREATED", "DEACTIVATED",
     "DELETED", "FROZEN", "FROZEN_PERMANENT", "LOST", "REORDERED_KLAYUDA",
     "SHIPPED", "STOLEN"}

\* UserCard.card_type, lines 119-122
CardTypes == {"PHYSICAL", "VIRTUAL"}

\* the literal list with FROZEN_PERMANENT added
ActiveStatusesWithFrozenPermanent ==
    {"ACTIVE", "FROZEN", "ACTIVATED_NO_PIN", "CREATED", "SHIPPED", "FROZEN_PERMANENT"}

\* the literal list with SHIPPED left out
ActiveStatusesWithoutShipped == {"ACTIVE", "FROZEN", "ACTIVATED_NO_PIN", "CREATED"}

\* the literal list of lines 179 and 188
ActiveStatuses == {"ACTIVE", "FROZEN", "ACTIVATED_NO_PIN", "CREATED", "SHIPPED"}

\* the statuses of the listed cards of the account-level runs: two the active
\* test accepts and one it rejects; cancellation adds CANCELED and
\* FROZEN_PERMANENT (SpecCard runs over all thirteen)
SampleStatuses == {"ACTIVE", "FROZEN", "DELETED"}

----------------------------------------------------------------------------
(* Sequences. *)

Range(s) == {s[i] : i \in 1..Len(s)}

SeqsUpTo(S, n) == UNION {[1..k -> S] : k \in 0..n}

\* list.remove(x): drops the first occurrence of x (x is in s where it is used)
RemoveFirst(s, x) ==
    LET i == CHOOSE j \in 1..Len(s) : s[j] = x /\ \A k \in 1..(j - 1) : s[k] # x
    IN  [k \in 1..(Len(s) - 1) |-> IF k < i THEN s[k] ELSE s[k + 1]]

\* the positions of s whose element satisfies Test, in order
Positions(s, Test(_)) ==
    SelectSeq([i \in 1..Len(s) |-> i], LAMBDA i : Test(s[i]))

----------------------------------------------------------------------------
(* The gateway functions: the boolean each returns when it does not raise. *)

Raises(o) == o = NetworkError

update_card_status(o) == o = Ok

delete_virtual_card(o) == o = Ok

block_mobile_access(o) == o = Ok

block_spei(o) == o = Ok

\* a gateway call: the function, its argument, the outcome and, for the
\* listings and the entitlement lookup, the body of a successful response
Answered(fn, arg, o, data) == [fn |-> fn, arg |-> arg, o |-> o, data |-> data]

Call(fn, arg, o) == Answered(fn, arg, o, <<>>)

Args(ids, b, n) == [ids |-> ids, batch_size |-> b, n_process |-> n]

NoArgs == Args(<<>>, 0, 0)

----------------------------------------------------------------------------
(* UserCard. Each transition takes the card and the outcome o of the one    *)
(* gateway call it may issue; it yields the card afterwards, the calls      *)
(* issued and whether an exception left the method.                         *)

NoCall(card) == [card |-> card, calls |-> <<>>, raised |-> FALSE]

SetStatus(card, fn, arg, o, successful, status) ==
    [card   |-> IF ~Raises(o) /\ successful
                THEN [card EXCEPT !.card_status = status] ELSE card,
     calls  |-> <<Call(fn, arg, o)>>,
     raised |-> Raises(o)]

\* delete with the test of was_deleted dropped
delete_unchecked(card, o) ==
    IF card.card_type = "VIRTUAL"
    THEN SetStatus(card, "delete_virtual_card", card.klrid, o, TRUE, "CANCELED")
    ELSE NoCall(card)

delete(card, o) ==
    IF card.card_type = "VIRTUAL"
    THEN SetStatus(card, "delete_virtual_card", card.klrid, o,
                   delete_virtual_card(o), "CANCELED")
    ELSE NoCall(card)

frozen_permanent(card, o) ==
    SetStatus(card, "update_card_status", <<card.klrid, "FROZEN_PERMANENT">>, o,
              update_card_status(o), "FROZEN_PERMANENT")

\* frozen with the test of the gateway's answer dropped
frozen_unconditional(card, o) ==
    SetStatus(card, "update_card_status", <<card.klrid, "FROZEN">>, o, TRUE, "FROZEN")

frozen(card, o) ==
    SetStatus(card, "update_card_status", <<card.klrid, "FROZEN">>, o,
              update_card_status(o), "FROZEN")

active(card, o) ==
    SetStatus(card, "update_card_status", <<card.klrid, "ACTIVE">>, o,
              update_card_status(o), "ACTIVE")

\* cancel with the temporary freeze in place of the permanent one
cancel_frozen(card, o) ==
    IF card.card_type = "VIRTUAL" THEN delete(card, o) ELSE frozen(card, o)

cancel(card, o) ==
    IF card.card_type = "VIRTUAL" THEN delete(card, o) ELSE frozen_permanent(card, o)

----------------------------------------------------------------------------
(* UserAccount. *)

IsActiveCard(card) == card.card_status \in ActiveStatuses

\* every card, whatever its status
AllCardPositions(user) == [i \in 1..Len(user.cards) |-> i]

\* get_active_cards as positions in user.cards (the list holds the same objects)
ActiveCardPositions(user) == Positions(user.cards, IsActiveCard)

get_active_cards(user) ==
    LET p == ActiveCardPositions(user)
    IN  [k \in 1..Len(p) |-> user.cards[p[k]]]

check_active_services(user) ==
    [user_id           |-> user.user_id,
     has_mobile_access |-> user.has_mobile_access,
     has_active_spei   |-> Len(user.active_spei) > 0,
     has_active_cards  |-> \E i \in 1..Len(user.cards) : IsActiveCard(user.cards[i])]

----------------------------------------------------------------------------
(* The records a fetch can put in the store. *)

Cards(u, n, statuses) ==
    UNION {{[i \in 1..k |-> [user_id |-> u, klrid |-> CardIds[i],
                            card_status |-> f[i][1], card_type |-> f[i][2]]] :
            f \in [1..k -> statuses \X CardTypes]} : k \in 0..n}

UserAccount(u, parabilium, spei, mobile, cards) ==
    [user_id |-> u, parabilium_account_id |-> parabilium, active_spei |-> spei,
     has_mobile_access |-> mobile, cards |-> cards]

MobileFlags == {"True", "False", "None"}

Accounts(u, nrails, ncards, statuses) ==
    {UserAccount(u, "not_found", s, m, <<>>) :
        s \in SeqsUpTo(SpeiIds, nrails), m \in MobileFlags}
    \cup
    {UserAccount(u, a, s, m, c) :
        a \in ParabiliumIds, s \in SeqsUpTo(SpeiIds, nrails), m \in MobileFlags,
        c \in Cards(u, ncards, statuses)}

Quiet ==
    /\ pc = "idle"
    /\ op = "none"
    /\ pre = users
    /\ outcome = "returned"
    /\ calls = <<>>
    /\ target = "none"
    /\ it = 0
    /\ active_cards = <<>>
    /\ runs = <<>>
    /\ args = NoArgs
    /\ ret = None

----------------------------------------------------------------------------
(* AccountManager: the three phases of cancel_account. Each operator is one *)
(* gateway call's worth of the method: the record afterwards, the calls     *)
(* issued and whether an exception left the method.                         *)

Step(user, cs, raised) == [user |-> user, calls |-> cs, raised |-> raised]

\* block_mobile_user_account with "is not False" for the truth test
block_mobile_user_account_not_false(user, o) ==
    IF user.has_mobile_access # "False"
    THEN Step(IF ~Raises(o) /\ block_mobile_access(o)
              THEN [user EXCEPT !.has_mobile_access = "False"] ELSE user,
              <<Call("block_mobile_access", user.user_id, o)>>, Raises(o))
    ELSE Step(user, <<>>, FALSE)

block_mobile_user_account(user, o) ==
    IF user.has_mobile_access = "True"
    THEN Step(IF ~Raises(o) /\ block_mobile_access(o)
              THEN [user EXCEPT !.has_mobile_access = "False"] ELSE user,
              <<Call("block_mobile_access", user.user_id, o)>>, Raises(o))
    ELSE Step(user, <<>>, FALSE)

\* the iteration with append in place of remove
block_spei_user_account_append(user, i, o) ==
    LET spei_id == user.active_spei[i + 1]
    IN  Step(IF ~Raises(o) /\ block_spei(o)
             THEN [user EXCEPT !.active_spei = Append(@, spei_id)] ELSE user,
             <<Call("block_spei", spei_id, o)>>, Raises(o))

\* One iteration of the for loop over the live list user.active_spei, the
\* list iterator standing at position i (0-based): the element read is the
\* one at that position of the list as it is now.
block_spei_user_account(user, i, o) ==
    LET spei_id == user.active_spei[i + 1]
    IN  Step(IF ~Raises(o) /\ block_spei(o)
             THEN [user EXCEPT !.active_spei = RemoveFirst(@, spei_id)] ELSE user,
             <<Call("block_spei", spei_id, o)>>, Raises(o))

\* the loop of block_spei_user_account goes on while the iterator's position
\* is inside the live list
SpeiLoopContinues(user, i) == i < Len(user.active_spei)

\* One iteration of the for loop over active_cards: card.cancel() on the
\* card object at position p of user.cards.
block_cards_user_account(user, p, o) ==
    LET r == cancel(user.cards[p], o)
    IN  Step([user EXCEPT !.cards[p] = r.card], r.calls, r.raised)

----------------------------------------------------------------------------
(* Actions: cancel_account(users[u]), one step per gateway call. *)

Stored(u) == u \in DOMAIN users /\ users[u] # None

Begin(name, u) ==
    /\ pc = "idle"
    /\ op' = name
    /\ pre' = users
    /\ target' = u
    /\ ret' = None

\* the running call ends: normally, or with an exception
End(raised) ==
    /\ pc' = "idle"
    /\ outcome' = IF raised THEN "raised" ELSE "returned"
    /\ it' = 0
    /\ active_cards' = <<>>

\* a step of the running call on the record under target
Advance(r, nextpc, nextit) ==
    /\ users' = [users EXCEPT ![target] = Some(r.user)]
    /\ calls' = calls \o r.calls
    /\ IF r.raised
       THEN End(TRUE)
       ELSE /\ pc' = nextpc
            /\ it' = nextit
            /\ outcome' = outcome
            /\ active_cards' = active_cards
    /\ UNCHANGED <<op, pre, target, runs, args, ret>>

CancelAccount(u) ==
    /\ Stored(u)
    /\ Begin("cancel_account", u)
    /\ outcome' = "running"
    /\ calls' = <<>>
    /\ pc' = "block_mobile"
    /\ it' = 0
    /\ active_cards' = <<>>
    /\ runs' = <<>>
    /\ args' = NoArgs
    /\ UNCHANGED users

BlockMobile ==
    /\ pc = "block_mobile"
    /\ \E o \in Outcomes :
          Advance(block_mobile_user_account(users[target][1], o), "block_spei", 0)

BlockSpeiNext ==
    /\ pc = "block_spei"
    /\ SpeiLoopContinues(users[target][1], it)
    /\ \E o \in Outcomes :
          Advance(block_spei_user_account(users[target][1], it, o),
                  "block_spei", it + 1)

BlockSpeiExit ==
    /\ pc = "block_spei"
    /\ ~SpeiLoopContinues(users[target][1], it)
    /\ pc' = "block_cards"
    /\ it' = 0
    /\ active_cards' = ActiveCardPositions(users[target][1])
    /\ UNCHANGED <<users, op, pre, outcome, calls, target, runs, args, ret>>

BlockCardsNext ==
    /\ pc = "block_cards"
    /\ it < Len(active_cards)
    /\ \E o \in Outcomes :
          Advance(block_cards_user_account(users[target][1], active_cards[it + 1], o),
                  "block_cards", it + 1)

CancelReturn ==
    /\ pc = "block_cards"
    /\ op = "cancel_account"
    /\ it >= Len(active_cards)
    /\ End(FALSE)
    /\ UNCHANGED <<users, op, pre, calls, target, runs, args, ret>>

CancelSteps ==
    \/ BlockMobile
    \/ BlockSpeiNext
    \/ BlockSpeiExit
    \/ BlockCardsNext
    \/ CancelReturn

----------------------------------------------------------------------------
(* Actions: one UserCard transition on card i of users[u]. *)

CardCall(name, u, i, r) ==
    /\ Stored(u)
    /\ i \in 1..Len(users[u][1].cards)
    /\ Begin(name, u)
    /\ users' = [users EXCEPT ![u] = Some([@[1] EXCEPT !.cards[i] = r.card])]
    /\ calls' = r.calls
    /\ pc' = "idle"
    /\ outcome' = IF r.raised THEN "raised" ELSE "returned"
    /\ it' = i
    /\ runs' = <<>>
    /\ args' = NoArgs
    /\ UNCHANGED active_cards

CardAt(u, i) == users[u][1].cards[i]

CardDelete(u, i, o) ==
    /\ Stored(u) /\ i \in 1..Len(users[u][1].cards)
    /\ CardCall("delete", u, i, delete(CardAt(u, i), o))

CardFrozenPermanent(u, i, o) ==
    /\ Stored(u) /\ i \in 1..Len(users[u][1].cards)
    /\ CardCall("frozen_permanent", u, i, frozen_permanent(CardAt(u, i), o))

CardFrozen(u, i, o) ==
    /\ Stored(u) /\ i \in 1..Len(users[u][1].cards)
    /\ CardCall("frozen", u, i, frozen(CardAt(u, i), o))

CardActive(u, i, o) ==
    /\ Stored(u) /\ i \in 1..Len(users[u][1].cards)
    /\ CardCall("active", u, i, active(CardAt(u, i), o))

CardCancel(u, i, o) ==
    /\ Stored(u) /\ i \in 1..Len(users[u][1].cards)
    /\ CardCall("cancel", u, i, cancel(CardAt(u, i), o))

----------------------------------------------------------------------------
(* The fetch: check_mobile_access and create_user_instance.                 *)
(* A dict is a function on its keys; d1 @@ d2 is d2 updated with d1.        *)

EmptyDict == [k \in {} |-> None]

\* the default batch_size of check_mobile_access, which create_user_instance
\* does not override (lines 199 and 291)
DefaultMobileBatchSize == 10

\* the default batch_size of create_user_instance_batch is 50 (line 343); the
\* model passes batch_size explicitly

Min(a, b) == IF a < b THEN a ELSE b

\* list(islice(users, batch_size)) with m ids consumed already
CurrentBatch(ids, m, b) == SubSeq(ids, m + 1, Min(m + b, Len(ids)))

\* the chunks with islice applied to user_id itself, not to the shared iterator
ChunksFromStart(ids, b) ==
    [k \in 1..((Len(ids) + b - 1) \div b) |-> CurrentBatch(ids, 0, b)]

\* (len(user_id) + batch_size - 1) // batch_size chunks of islice(user_id_, batch_size)
Chunks(ids, b) ==
    [k \in 1..((Len(ids) + b - 1) \div b) |-> CurrentBatch(ids, (k - 1) * b, b)]

\* One iteration of the while loop of check_mobile_access: the request for
\* current_batch has outcome o and, on success, carries one entry per id of
\* the batch, with the flag active[id].
check_mobile_access(results, current_batch, o, active_) ==
    [results |-> IF Raises(o) THEN results
                 ELSE IF o = Ok
                      THEN [u \in Range(current_batch) |-> active_[u]] @@ results
                      ELSE [u \in Range(current_batch) |-> "None"] @@ results,
     calls   |-> <<Answered("check_mobile_access", current_batch, o,
                            IF o = Ok THEN Some(active_) ELSE <<>>)>>,
     raised  |-> Raises(o)]

\* account.get('internalId', None) of an entry that has no internalId
NoInternalId == "(no internalId)"

\* the scan with the provider test of line 305 dropped
ScanSpeiAnyProvider(accounts) ==
    LET sel == SelectSeq(accounts, LAMBDA a : a.internalId # NoInternalId)
    IN  [k \in 1..Len(sel) |-> sel[k].internalId]

\* lines 302-308: the internal ids of the SPEI entries that have one, in order
ScanSpei(accounts) ==
    LET sel == SelectSeq(accounts, LAMBDA a : a.providerId = "SPEI"
                                               /\ a.internalId # NoInternalId)
    IN  [k \in 1..Len(sel) |-> sel[k].internalId]

\* lines 301, 309-310: the internal id of the last PARABILIUM entry
ScanParabilium(accounts) ==
    LET p == Positions(accounts, LAMBDA a : a.providerId = "PARABILIUM")
    IN  IF p = <<>> THEN "not_found" ELSE accounts[p[Len(p)]].internalId

\* lines 321-329
UserCards(user, cards) ==
    [k \in 1..Len(cards) |-> [user_id |-> user, klrid |-> cards[k].id,
                             card_status |-> cards[k].status,
                             card_type |-> cards[k].cardType]]

Fetched(assigned, instance, cs, raised) ==
    [assigned |-> assigned, instance |-> instance, calls |-> cs, raised |-> raised]

\* One iteration of the for loop of create_user_instance (lines 295-337):
\* acc is the outcome of check_account_providers with its listing, cl that of
\* check_cards with its listing. assigned tells whether instances[user] was
\* set (it is not when an exception leaves the loop).
create_user_instance(user, mobile_access, acc, cl) ==
    LET c1 == Answered("check_account_providers", user, acc.o, acc.accounts)
        parabilium_internal_id == ScanParabilium(acc.accounts)
        spei == ScanSpei(acc.accounts)
        c2 == Answered("check_cards", parabilium_internal_id, cl.o, cl.cards)
        account(cards) == UserAccount(user, parabilium_internal_id, spei,
                                      mobile_access[user], UserCards(user, cards))
    IN  IF Raises(acc.o) THEN Fetched(FALSE, None, <<c1>>, TRUE)
        ELSE IF acc.o # Ok THEN Fetched(TRUE, None, <<c1>>, FALSE)
        ELSE IF parabilium_internal_id = "not_found"
             THEN Fetched(TRUE, Some(account(<<>>)), <<c1>>, FALSE)
        ELSE IF Raises(cl.o) THEN Fetched(FALSE, None, <<c1, c2>>, TRUE)
        ELSE IF cl.o # Ok THEN Fetched(TRUE, None, <<c1, c2>>, FALSE)
        ELSE Fetched(TRUE, Some(account(cl.cards)), <<c1, c2>>, FALSE)

----------------------------------------------------------------------------
(* What the gateway may answer. *)

Entry(p, id) == [providerId |-> p, internalId |-> id]

AccountEntries ==
    {Entry("SPEI", r) : r \in SpeiIds \cup {NoInternalId}}
    \cup {Entry("PARABILIUM", a) : a \in ParabiliumIds}
    \cup {Entry("STP", "x1")}

Response(o, accounts, cards) == [o |-> o, accounts |-> accounts, cards |-> cards]

Failures == {Response(o, <<>>, <<>>) : o \in {HttpError, NetworkError}}

AccountResponses(n) ==
    Failures \cup {Response(Ok, l, <<>>) : l \in SeqsUpTo(AccountEntries, n)}

CardListings(n, statuses) ==
    UNION {{[i \in 1..k |-> [id |-> CardIds[i], status |-> f[i][1], cardType |-> f[i][2]]] :
            f \in [1..k -> statuses \X CardTypes]} : k \in 0..n}

CardResponses(n, statuses) ==
    Failures \cup {Response(Ok, <<>>, l) : l \in CardListings(n, statuses)}

\* the answers to check_cards that matter after the answer acc: one when
\* check_cards is not called
CardResponsesAfter(acc, all) ==
    IF acc.o = Ok /\ ScanParabilium(acc.accounts) # "not_found"
    THEN all ELSE {Response(Ok, <<>>, <<>>)}

\* the flags of the entries of a successful entitlement response
ActiveFlags == {"True", "False"}

----------------------------------------------------------------------------
(* Activations of create_user_instance (or of check_mobile_access alone).   *)
(* phase: "waiting" (a chunk not yet picked by a pool process), "mobile"    *)
(* (the loop of check_mobile_access), "users" (the loop of lines 294-337),  *)
(* "done" (returned), "raised" (left by an exception).                      *)

NewRun(ids, b, lookup_only, phase) ==
    [ids |-> ids, batch_size |-> b, lookup_only |-> lookup_only, phase |-> phase,
     m |-> 0, mobile_access |-> EmptyDict, i |-> 0, instances |-> EmptyDict,
     calls |-> <<>>]

\* the phase after the loop of check_mobile_access / of create_user_instance
AfterMobile(run, m) ==
    IF m < Len(run.ids) THEN "mobile" ELSE IF run.lookup_only THEN "done"
    ELSE IF Len(run.ids) = 0 THEN "done" ELSE "users"

Started(run) == [run EXCEPT !.phase = AfterMobile(run, 0)]

MobileStep(k, flags) ==
    /\ pc \in {"fetch", "batch", "refresh"}
    /\ k \in 1..Len(runs)
    /\ runs[k].phase = "mobile"
    /\ LET run == runs[k]
           batch == CurrentBatch(run.ids, run.m, run.batch_size)
       IN  \E o \in Outcomes :
           \E active_ \in [Range(batch) -> IF o = Ok THEN flags ELSE {"None"}] :
              LET r == check_mobile_access(run.mobile_access, batch, o, active_)
                  m == run.m + Len(batch)
              IN  runs' = [runs EXCEPT ![k] =
                              [run EXCEPT !.mobile_access = r.results,
                                          !.calls = @ \o r.calls,
                                          !.m = m,
                                          !.phase = IF r.raised THEN "raised"
                                                    ELSE AfterMobile(run, m)]]
    /\ UNCHANGED <<users, pc, op, pre, outcome, calls, target, it, active_cards,
                   args, ret>>

UserStep(k, accs, cls) ==
    /\ pc \in {"fetch", "batch", "refresh"}
    /\ k \in 1..Len(runs)
    /\ runs[k].phase = "users"
    /\ LET run == runs[k]
           user == run.ids[run.i + 1]
       IN  \E acc \in accs : \E cl \in CardResponsesAfter(acc, cls) :
              LET r == create_user_instance(user, run.mobile_access, acc, cl)
              IN  runs' = [runs EXCEPT ![k] =
                              [run EXCEPT !.instances = IF r.assigned
                                                        THEN (user :> r.instance) @@ @
                                                        ELSE @,
                                          !.calls = @ \o r.calls,
                                          !.i = @ + 1,
                                          !.phase = IF r.raised THEN "raised"
                                                    ELSE IF run.i + 1 < Len(run.ids)
                                                         THEN "users" ELSE "done"]]
    /\ UNCHANGED <<users, pc, op, pre, outcome, calls, target, it, active_cards,
                   args, ret>>

BeginFetch(name, ids, b, n) ==
    /\ Begin(name, "none")
    /\ args' = Args(ids, b, n)
    /\ outcome' = "running"
    /\ calls' = <<>>
    /\ it' = 0
    /\ active_cards' = <<>>
    /\ UNCHANGED users

\* check_mobile_access on ids with batch_size b, called on its own
CheckMobileAccess(ids, b) ==
    /\ BeginFetch("check_mobile_access", ids, b, 0)
    /\ pc' = "fetch"
    /\ runs' = <<Started(NewRun(ids, b, TRUE, "mobile"))>>

\* create_user_instance on ids
CreateUserInstance(ids) ==
    /\ BeginFetch("create_user_instance", ids, 0, 0)
    /\ pc' = "fetch"
    /\ runs' = <<Started(NewRun(ids, DefaultMobileBatchSize, FALSE, "mobile"))>>

\* the return of either, or the exception that left it
FetchReturn ==
    /\ pc = "fetch"
    /\ runs[1].phase \in {"done", "raised"}
    /\ End(runs[1].phase = "raised")
    /\ ret' = IF runs[1].phase = "raised" THEN None
              ELSE IF runs[1].lookup_only THEN Some(runs[1].mobile_access)
              ELSE Some(runs[1].instances)
    /\ UNCHANGED <<users, op, pre, calls, target, runs, args>>

----------------------------------------------------------------------------
(* create_user_instance_batch on ids with batch_size b and n_process n: the  *)
(* chunks are mapped over a pool of n processes, each chunk by one call of  *)
(* create_user_instance in a process of its own; when all are done the      *)
(* parent updates self.users with every returned dict, in chunk order.      *)

RECURSIVE UpdateAll(_, _)
\* for dictionary in results: self.users.update(dictionary)
UpdateAll(store, results) ==
    IF results = <<>> THEN store
    ELSE UpdateAll(Head(results) @@ store, Tail(results))

Running == {k \in 1..Len(runs) : runs[k].phase \in {"mobile", "users"}}

CreateUserInstanceBatch(ids, b, n) ==
    /\ BeginFetch("create_user_instance_batch", ids, b, n)
    /\ pc' = "batch"
    /\ runs' = [k \in 1..Len(Chunks(ids, b)) |->
                   NewRun(Chunks(ids, b)[k], DefaultMobileBatchSize, FALSE, "waiting")]

\* a pool process picks the next chunk
WorkerStart(k) ==
    /\ pc = "batch"
    /\ k \in 1..Len(runs)
    /\ runs[k].phase = "waiting"
    /\ \A j \in 1..(k - 1) : runs[j].phase # "waiting"
    /\ Cardinality(Running) < args.n_process
    /\ runs' = [runs EXCEPT ![k] = Started(@)]
    /\ UNCHANGED <<users, pc, op, pre, outcome, calls, target, it, active_cards,
                   args, ret>>

AllFinished == \A k \in 1..Len(runs) : runs[k].phase \in {"done", "raised"}

SomeRaised == \E k \in 1..Len(runs) : runs[k].phase = "raised"

\* lines 355-358
BatchMerge ==
    /\ pc = "batch"
    /\ AllFinished /\ ~SomeRaised
    /\ LET results == [k \in 1..Len(runs) |-> runs[k].instances]
       IN  /\ users' = UpdateAll(users, results)
           /\ ret' = Some(results)
    /\ End(FALSE)
    /\ UNCHANGED <<op, pre, calls, target, runs, args>>

\* pool_.map re-raises a worker's exception once every chunk is finished
BatchRaise ==
    /\ pc = "batch"
    /\ AllFinished /\ SomeRaised
    /\ End(TRUE)
    /\ UNCHANGED <<users, op, pre, calls, target, runs, args, ret>>

----------------------------------------------------------------------------
(* SpecCard: the store holds one record with one card, of any status and    *)
(* type; the card transitions are applied to it, in any order.              *)

InitCard ==
    /\ users \in {("u1" :> Some(a)) : a \in Accounts("u1", 0, 1, CardStatuses)}
    /\ Len(users["u1"][1].cards) = 1
    /\ Quiet

NextCard ==
    \E o \in Outcomes :
        \/ CardDelete("u1", 1, o)
        \/ CardFrozenPermanent("u1", 1, o)
        \/ CardFrozen("u1", 1, o)
        \/ CardActive("u1", 1, o)
        \/ CardCancel("u1", 1, o)

SpecCard == InitCard /\ [][NextCard]_vars

----------------------------------------------------------------------------
(* SpecCancel: the store holds one fetched record (any rails, entitlement   *)
(* flag and cards within the bounds); cancel_account runs on it, repeatedly. *)

InitCancel ==
    /\ users \in {("u1" :> Some(a)) : a \in Accounts("u1", MaxRails, MaxCards, SampleStatuses)}
    /\ Quiet

NextCancel ==
    \/ CancelAccount("u1")
    \/ CancelSteps

SpecCancel == InitCancel /\ [][NextCancel]_vars

----------------------------------------------------------------------------
(* SpecFetch: check_mobile_access and create_user_instance, called directly *)
(* (neither touches self.users), with every answer of the gateway within    *)
(* the bounds. A behaviour is one call.                                     *)

InitFetch ==
    /\ users = EmptyDict
    /\ Quiet

NextFetch ==
    \/ /\ op = "none"
       /\ \E ids \in SeqsUpTo(UserIds, MaxLookup) : \E b \in 1..MaxLookup :
             CheckMobileAccess(ids, b)
    \/ /\ op = "none"
       /\ \E ids \in SeqsUpTo(UserIds, MaxIds) : CreateUserInstance(ids)
    \/ MobileStep(1, ActiveFlags)
    \/ UserStep(1, AccountResponses(MaxAccounts), CardResponses(MaxCards, {"ACTIVE"}))
    \/ FetchReturn

SpecFetch == InitFetch /\ [][NextFetch]_vars

----------------------------------------------------------------------------
(* SpecFetchOne: create_user_instance for one user, with every account      *)
(* listing and card listing within the bounds. A behaviour is one call.     *)

NextFetchOne ==
    \/ /\ op = "none"
       /\ \E u \in UserIds : CreateUserInstance(<<u>>)
    \/ MobileStep(1, ActiveFlags)
    \/ UserStep(1, AccountResponses(MaxAccounts), CardResponses(MaxCards, SampleStatuses))
    \/ FetchReturn

SpecFetchOne == InitFetch /\ [][NextFetchOne]_vars

----------------------------------------------------------------------------
(* SpecLarge: one batch fetch of eleven users in one chunk, one more than   *)
(* the batch_size of the entitlement lookup inside create_user_instance.    *)

LargeIds == <<"n01", "n02", "n03", "n04", "n05", "n06", "n07", "n08", "n09", "n10", "n11">>

LargeBatchSize == DefaultMobileBatchSize + 1

LargeAccountResponses == Failures \cup {Response(Ok, <<>>, <<>>)}

NextLarge ==
    \/ /\ op = "none"
       /\ CreateUserInstanceBatch(LargeIds, LargeBatchSize, 1)
    \/ WorkerStart(1)
    \/ MobileStep(1, {"True"})
    \/ UserStep(1, LargeAccountResponses, {Response(Ok, <<>>, <<>>)})
    \/ BatchMerge
    \/ BatchRaise

SpecLarge == InitFetch /\ [][NextLarge]_vars

----------------------------------------------------------------------------
(* Spec: the store. Batch fetches fill and refresh self.users; the          *)
(* gateway's listings are drawn from a few shapes.                          *)

StoreAccountResponses ==
    Failures \cup
    {Response(Ok, l, <<>>) :
        l \in {<<>>, <<Entry("SPEI", "r1"), Entry("PARABILIUM", "a1")>>}}

StoreCardResponses ==
    Failures \cup
    {Response(Ok, <<>>, l) :
        l \in {<<[id |-> "k1", status |-> "ACTIVE", cardType |-> "VIRTUAL"]>>}}

StoreActiveFlags == {"True"}

Init ==
    /\ users = EmptyDict
    /\ Quiet

Next ==
    \/ \E ids \in SeqsUpTo(UserIds, MaxIds) : \E b \in 1..MaxIds, n \in 1..MaxProcesses :
          CreateUserInstanceBatch(ids, b, n)
    \/ \E k \in 1..MaxIds :
          \/ WorkerStart(k)
          \/ MobileStep(k, StoreActiveFlags)
          \/ UserStep(k, StoreAccountResponses, StoreCardResponses)
    \/ BatchMerge
    \/ BatchRaise

Spec == Init /\ [][Next]_vars

----------------------------------------------------------------------------
(* What the claims speak of, read from the state. *)

Count(s, Test(_)) == Len(SelectSeq(s, Test))

CallsOf(fn) == SelectSeq(calls, LAMBDA c : c.fn = fn)

Succeeded(fn, arg) == \E k \in 1..Len(calls) : calls[k] = Call(fn, arg, Ok)

NoDuplicates(s) == \A i, j \in 1..Len(s) : s[i] = s[j] => i = j

InCancel == op = "cancel_account"

AfterCancel == InCancel /\ outcome \in {"returned", "raised"}

\* the record under cancellation, when cancel_account started and now
Before == pre[target][1]
Now == users[target][1]

CardOps == {"delete", "frozen_permanent", "frozen", "active", "cancel"}

AfterCardOp == op \in CardOps /\ pc = "idle"

\* the card a transition was applied to, before and after
CardBefore == pre[target][1].cards[it]
CardNow == users[target][1].cards[it]

\* the target status and the gateway function of a transition on a card
Target(name, card) ==
    CASE name = "frozen" -> <<"update_card_status", <<card.klrid, "FROZEN">>, "FROZEN">>
      [] name = "active" -> <<"update_card_status", <<card.klrid, "ACTIVE">>, "ACTIVE">>
      [] name = "frozen_permanent" \/ (name = "cancel" /\ card.card_type # "VIRTUAL") ->
            <<"update_card_status", <<card.klrid, "FROZEN_PERMANENT">>, "FROZEN_PERMANENT">>
      [] OTHER -> <<"delete_virtual_card", card.klrid, "CANCELED">>

----------------------------------------------------------------------------
\* C1: in the rail phase of cancel, the deactivate call is issued exactly once
\* for every id that is in active_spei when the phase starts, and after the
\* phase active_spei is the starting list without the ids whose call succeeded
\* (stated for a list that holds no id twice; the phase is over, without an
\* exception, when the card phase starts).
C1_RailPhaseCoversSnapshot ==
    (InCancel /\ pc = "block_cards" /\ NoDuplicates(Before.active_spei)) =>
        /\ [k \in 1..Len(CallsOf("block_spei")) |-> CallsOf("block_spei")[k].arg]
              = Before.active_spei
        /\ Now.active_spei
              = SelectSeq(Before.active_spei, LAMBDA r : ~Succeeded("block_spei", r))

\* C3: cancel_account returns normally whatever the outcomes of its gateway
\* calls: no exception reaches the caller.
C3_CancelNeverRaises ==
    InCancel => outcome # "raised"

----------------------------------------------------------------------------
\* C8: a card transition issues at most one gateway call and changes nothing
\* but the status; the status changes only when that call succeeded, and then
\* to FROZEN (frozen), FROZEN_PERMANENT (frozen_permanent, and cancel on a card
\* that is not VIRTUAL), ACTIVE (active) or CANCELED (delete and cancel on a
\* VIRTUAL card), from any prior status; delete on a PHYSICAL card issues no
\* call and changes nothing.
C8_CardTransitions ==
    AfterCardOp =>
        LET t == Target(op, CardBefore)
            skipped == op = "delete" /\ CardBefore.card_type # "VIRTUAL"
        IN  /\ CardNow.klrid = CardBefore.klrid
            /\ CardNow.card_type = CardBefore.card_type
            /\ CardNow.user_id = CardBefore.user_id
            /\ IF skipped
               THEN calls = <<>> /\ CardNow = CardBefore /\ outcome = "returned"
               ELSE /\ Len(calls) = 1
                    /\ calls[1].fn = t[1]
                    /\ calls[1].arg = t[2]
                    /\ CardNow.card_status =
                          IF calls[1].o = Ok THEN t[3] ELSE CardBefore.card_status

C8_Witness ==
    /\ AfterCardOp
    /\ op = "cancel"
    /\ CardBefore.card_type = "PHYSICAL"
    /\ CardBefore.card_status = "LOST"
    /\ CardNow.card_status = "FROZEN_PERMANENT"

----------------------------------------------------------------------------
\* C9: during and after cancel_account every card has its prior status, or
\* CANCELED (only a VIRTUAL card whose delete call succeeded), or
\* FROZEN_PERMANENT (only a PHYSICAL card whose freeze-permanent call
\* succeeded); no card is added, removed or retyped.
C9_CancelCardStatuses ==
    InCancel =>
        /\ Len(Now.cards) = Len(Before.cards)
        /\ \A i \in 1..Len(Before.cards) :
              LET b == Before.cards[i]
                  a == Now.cards[i]
              IN  /\ a.klrid = b.klrid /\ a.card_type = b.card_type
                  /\ \/ a.card_status = b.card_status
                     \/ /\ a.card_status = "CANCELED"
                        /\ b.card_type = "VIRTUAL"
                        /\ Succeeded("delete_virtual_card", b.klrid)
                     \/ /\ a.card_status = "FROZEN_PERMANENT"
                        /\ b.card_type = "PHYSICAL"
                        /\ Succeeded("update_card_status", <<b.klrid, "FROZEN_PERMANENT">>)

C9_Witness ==
    /\ AfterCancel
    /\ outcome = "returned"
    /\ Len(Before.cards) = 2
    /\ Before.cards[1].card_type = "VIRTUAL" /\ Before.cards[1].card_status = "ACTIVE"
    /\ Before.cards[2].card_type = "PHYSICAL" /\ Before.cards[2].card_status = "FROZEN"
    /\ Now.cards[1].card_status = "CANCELED"
    /\ Now.cards[2].card_status = "FROZEN_PERMANENT"

----------------------------------------------------------------------------
\* C10: once the mobile phase of cancel_account is over, has_mobile_access is
\* False if the revoke call was issued and succeeded and has its prior value
\* otherwise; the revoke call is issued at most once, for the record's user,
\* and only when has_mobile_access was True.
C10_MobileAccessAfterCancel ==
    (InCancel /\ pc # "block_mobile") =>
        LET revoke == CallsOf("block_mobile_access")
        IN  /\ Len(revoke) <= 1
            /\ revoke # <<>> =>
                  /\ Before.has_mobile_access = "True"
                  /\ revoke[1].arg = Before.user_id
            /\ Now.has_mobile_access =
                  IF revoke # <<>> /\ revoke[1].o = Ok
                  THEN "False" ELSE Before.has_mobile_access

C10_Witness ==
    /\ AfterCancel
    /\ outcome = "returned"
    /\ Before.has_mobile_access = "True"
    /\ Now.has_mobile_access = "False"
    /\ CallsOf("block_mobile_access") = <<Call("block_mobile_access", "u1", Ok)>>

----------------------------------------------------------------------------
(* The fetch, read from the state. *)

\* the calls of activation k
RunCalls(k, fn) == SelectSeq(runs[k].calls, LAMBDA c : c.fn = fn)

InFetch == op = "create_user_instance" /\ Len(runs) = 1

\* the user in whose loop iteration call k of the activation was issued
UserOfCall(k) ==
    LET a == CHOOSE j \in 1..k :
                /\ runs[1].calls[j].fn = "check_account_providers"
                /\ \A l \in (j + 1)..k : runs[1].calls[l].fn # "check_account_providers"
    IN  runs[1].calls[a].arg

RECURSIVE InternalIdsOf(_, _)
\* the internal ids of the entries of a listing tagged provider, in order
InternalIdsOf(listing, provider) ==
    IF listing = <<>> THEN <<>>
    ELSE (IF Head(listing).providerId = provider /\ Head(listing).internalId # NoInternalId
          THEN <<Head(listing).internalId>> ELSE <<>>)
         \o InternalIdsOf(Tail(listing), provider)

RECURSIVE SumOver(_, _)
SumOver(f(_), n) == IF n = 0 THEN 0 ELSE f(n) + SumOver(f, n - 1)

CeilDiv(n, b) == (n + b - 1) \div b

----------------------------------------------------------------------------
\* C2: after a batch fetch, the store entry of a user whose fetch failed (its
\* result is None in every returned dict that holds it) is what it was before
\* the fetch: the same record, or still no entry.
C2_FailedFetchLeavesStore ==
    (op = "create_user_instance_batch" /\ pc = "idle" /\ outcome = "returned") =>
        \A u \in UserIds :
            LET holding == {k \in 1..Len(ret[1]) : u \in DOMAIN ret[1][k]}
            IN  (holding # {} /\ \A k \in holding : ret[1][k][u] = None) =>
                    IF u \in DOMAIN pre
                    THEN u \in DOMAIN users /\ users[u] = pre[u]
                    ELSE u \notin DOMAIN users

----------------------------------------------------------------------------
\* C4: in create_user_instance (ids all different), when the account listing
\* or the card listing of a user fails, no exception leaves the call, that
\* user's result is None, and every id of the call is a key of the result.
C4_FailedUserIsAbsent ==
    (InFetch /\ NoDuplicates(args.ids)) =>
        \A k \in 1..Len(runs[1].calls) :
            LET c == runs[1].calls[k]
            IN  (c.fn \in {"check_account_providers", "check_cards"} /\ c.o # Ok) =>
                    /\ runs[1].phase # "raised"
                    /\ UserOfCall(k) \in DOMAIN runs[1].instances
                    /\ runs[1].instances[UserOfCall(k)] = None
                    /\ runs[1].phase = "done" => DOMAIN runs[1].instances = Range(args.ids)

----------------------------------------------------------------------------
\* C5: in check_mobile_access (ids all different), a failed chunk request
\* marks every id of its chunk None and nothing else: no exception leaves the
\* lookup, and the ids of the chunks that succeeded keep the flag returned.
C5_FailedChunkIsLocal ==
    (Len(runs) = 1 /\ op \in {"check_mobile_access", "create_user_instance"}
        /\ NoDuplicates(args.ids)) =>
        \A k \in 1..Len(runs[1].calls) :
            LET c == runs[1].calls[k]
            IN  (c.fn = "check_mobile_access" /\ c.o # Ok) =>
                    /\ runs[1].phase # "raised"
                    /\ \A u \in Range(c.arg) : runs[1].mobile_access[u] = "None"
                    /\ \A j \in 1..Len(runs[1].calls) :
                          LET d == runs[1].calls[j]
                          IN  (d.fn = "check_mobile_access" /\ d.o = Ok) =>
                                 \A u \in Range(d.arg) :
                                    runs[1].mobile_access[u] = d.data[1][u]

----------------------------------------------------------------------------
\* C6: a batch fetch of N ids with batch_size B that returns has issued
\* exactly ceil(N/B) entitlement requests, and the returned dicts hold
\* exactly N keys together, one per id.
C6_ChunksAndKeys ==
    (op = "create_user_instance_batch" /\ pc = "idle" /\ outcome = "returned") =>
        LET requests(k) == Len(RunCalls(k, "check_mobile_access"))
            keys(k) == Cardinality(DOMAIN ret[1][k])
        IN  /\ SumOver(requests, Len(runs)) = CeilDiv(Len(args.ids), args.batch_size)
            /\ SumOver(keys, Len(ret[1])) = Len(args.ids)
            /\ UNION {DOMAIN ret[1][k] : k \in 1..Len(ret[1])} = Range(args.ids)

----------------------------------------------------------------------------
\* C7: a record fetched by create_user_instance (ids all different) holds in
\* active_spei the internal ids of the SPEI entries of the user's account
\* listing, in order; without a PARABILIUM entry no card listing was asked
\* for, cards is empty and parabilium_account_id is 'not_found'; with one,
\* parabilium_account_id is its internal id (the last one's), the card listing
\* was asked for that id, and cards holds one card per entry of the listing,
\* in order, with its id, status and type.
C7_FetchedRecord ==
    (InFetch /\ NoDuplicates(args.ids)) =>
        \A u \in DOMAIN runs[1].instances :
            runs[1].instances[u] # None =>
                LET cs == runs[1].calls
                    a == CHOOSE k \in 1..Len(cs) :
                            cs[k].fn = "check_account_providers" /\ cs[k].arg = u
                    listing == cs[a].data
                    record == runs[1].instances[u][1]
                    p == InternalIdsOf(listing, "PARABILIUM")
                    asked == a < Len(cs) /\ cs[a + 1].fn = "check_cards"
                IN  /\ cs[a].o = Ok
                    /\ record.user_id = u
                    /\ record.active_spei = InternalIdsOf(listing, "SPEI")
                    /\ IF p = <<>>
                       THEN /\ ~asked
                            /\ record.cards = <<>>
                            /\ record.parabilium_account_id = "not_found"
                       ELSE /\ record.parabilium_account_id = p[Len(p)]
                            /\ asked
                            /\ cs[a + 1].arg = p[Len(p)]
                            /\ cs[a + 1].o = Ok
                            /\ Len(record.cards) = Len(cs[a + 1].data)
                            /\ \A i \in 1..Len(record.cards) :
                                  /\ record.cards[i].klrid = cs[a + 1].data[i].id
                                  /\ record.cards[i].card_status = cs[a + 1].data[i].status
                                  /\ record.cards[i].card_type = cs[a + 1].data[i].cardType

C7_Witness ==
    /\ InFetch
    /\ pc = "idle"
    /\ outcome = "returned"
    /\ args.ids = <<"u1">>
    /\ runs[1].calls[2].data = <<Entry("SPEI", "r1"), Entry("PARABILIUM", "a1")>>
    /\ ret[1]["u1"] # None
    /\ ret[1]["u1"][1].active_spei = <<"r1">>
    /\ ret[1]["u1"][1].parabilium_account_id = "a1"
    /\ Len(ret[1]["u1"][1].cards) = 2
    /\ ret[1]["u1"][1].cards[1].card_status = "ACTIVE"
    /\ ret[1]["u1"][1].cards[1].card_type = "PHYSICAL"
    /\ ret[1]["u1"][1].cards[2].card_status = "FROZEN"
    /\ ret[1]["u1"][1].cards[2].card_type = "VIRTUAL"
    /\ Len(get_active_cards(ret[1]["u1"][1])) = 2

----------------------------------------------------------------------------
\* the number of occurrences of x in the list s
Occurrences(s, x) == Cardinality({i \in 1..Len(s) : s[i] = x})

\* C11: during and after cancel_account, active_spei holds no id that it did
\* not hold when the call started, and no id more often than it did then;
\* this for every cancel, the first and the repeated ones.
C11_RailsOnlyShrink ==
    InCancel =>
        /\ Range(Now.active_spei) \subseteq Range(Before.active_spei)
        /\ \A r \in SpeiIds :
              Occurrences(Now.active_spei, r) <= Occurrences(Before.active_spei, r)
        /\ Len(Now.active_spei) <= Len(Before.active_spei)

\* a cancel of a record with two rails that kept the first, whose call
\* failed, and removed the second
C11_Witness ==
    /\ AfterCancel
    /\ Before.active_spei = <<"r1", "r2">>
    /\ CallsOf("block_spei") = <<Call("block_spei", "r1", HttpError),
                                 Call("block_spei", "r2", Ok)>>
    /\ Now.active_spei = <<"r1">>

----------------------------------------------------------------------------
\* the gateway call card.cancel() issues for a card
CancelCallOf(card) ==
    IF card.card_type = "VIRTUAL" THEN <<"delete_virtual_card", card.klrid>>
    ELSE <<"update_card_status", <<card.klrid, "FROZEN_PERMANENT">>>>

\* the calls of the running call for function fn with argument arg
Attempts(fn, arg) == SelectSeq(calls, LAMBDA c : c.fn = fn /\ c.arg = arg)

\* C12: a finished cancel_account has surfaced no exception and has run its
\* three phases whatever the outcomes: the rail phase has called deactivate
\* when there was a rail, a rail whose call failed is still in active_spei,
\* every successful call has removed its rail, and every card that was active
\* has received its one cancel attempt, whatever the outcomes of the revoke
\* call, of the rail calls and of the other cards' calls.
C12_PhasesIsolated ==
    AfterCancel =>
        /\ outcome = "returned"
        /\ Before.active_spei # <<>> => CallsOf("block_spei") # <<>>
        /\ \A r \in SpeiIds :
              LET tried == Attempts("block_spei", r)
                  ok == Len(SelectSeq(tried, LAMBDA c : c.o = Ok))
              IN  /\ Occurrences(Now.active_spei, r)
                        = Occurrences(Before.active_spei, r) - ok
                  /\ (\E k \in 1..Len(tried) : tried[k].o # Ok) =>
                        r \in Range(Now.active_spei)
        /\ \A i \in 1..Len(Before.cards) :
              IsActiveCard(Before.cards[i]) =>
                 Len(Attempts(CancelCallOf(Before.cards[i])[1],
                              CancelCallOf(Before.cards[i])[2])) = 1

----------------------------------------------------------------------------
(* SpecQuery: the two queries of UserAccount, applied to a stored record    *)
(* whose cards have any of the thirteen statuses and either type.           *)

Query(name, u, result) ==
    /\ pc = "idle"
    /\ Stored(u)
    /\ op' = name
    /\ pre' = users
    /\ target' = u
    /\ ret' = Some(result)
    /\ outcome' = "returned"
    /\ calls' = <<>>
    /\ runs' = <<>>
    /\ args' = NoArgs
    /\ UNCHANGED <<users, pc, it, active_cards>>

GetActiveCards(u) ==
    /\ Stored(u)
    /\ Query("get_active_cards", u, get_active_cards(users[u][1]))

CheckActiveServices(u) ==
    /\ Stored(u)
    /\ Query("check_active_services", u, check_active_services(users[u][1]))

InitQuery ==
    /\ users \in {("u1" :> Some(UserAccount("u1", a, rails, m, c))) :
                     a \in ParabiliumIds, rails \in {<<>>, <<"r1">>},
                     m \in MobileFlags, c \in Cards("u1", MaxCards, CardStatuses)}
    /\ Quiet

NextQuery ==
    \/ GetActiveCards("u1")
    \/ CheckActiveServices("u1")

SpecQuery == InitQuery /\ [][NextQuery]_vars

\* the cards of s whose status is one of the five, in the order of s
WithStatusIn(s, statuses) == SelectSeq(s, LAMBDA c : c.card_status \in statuses)

\* C13: get_active_cards returns the cards of the record whose status is
\* ACTIVE, FROZEN, ACTIVATED_NO_PIN, CREATED or SHIPPED, in the record's
\* order, and none whose status is DELETED or one of the other seven;
\* check_active_services reports has_active_cards true iff that list is not
\* empty and has_active_spei true iff active_spei is not empty; neither
\* changes the record.
C13_ActiveCardPredicate ==
    LET five == {"ACTIVE", "FROZEN", "ACTIVATED_NO_PIN", "CREATED", "SHIPPED"}
        others == {"DELETED", "BROKEN", "CANCELED", "DEACTIVATED", "FROZEN_PERMANENT",
                   "LOST", "REORDERED_KLAYUDA", "STOLEN"}
    IN  /\ op = "get_active_cards" =>
              /\ ret[1] = WithStatusIn(Now.cards, five)
              /\ \A k \in 1..Len(ret[1]) : ret[1][k].card_status \notin others
              /\ Len(ret[1]) + Len(WithStatusIn(Now.cards, others)) = Len(Now.cards)
              /\ users = pre
        /\ op = "check_active_services" =>
              /\ ret[1].has_active_cards = (WithStatusIn(Now.cards, five) # <<>>)
              /\ ret[1].has_active_cards = (get_active_cards(Now) # <<>>)
              /\ ret[1].has_active_spei = (Now.active_spei # <<>>)
              /\ ret[1].user_id = Now.user_id
              /\ ret[1].has_mobile_access = Now.has_mobile_access
              /\ users = pre

\* a record with a SHIPPED card and a DELETED card: the query returns the first
C13_Witness ==
    /\ op = "get_active_cards"
    /\ Len(Now.cards) = 2
    /\ Now.cards[1].card_status = "DELETED"
    /\ Now.cards[2].card_status = "SHIPPED"
    /\ ret[1] = <<Now.cards[2]>>

----------------------------------------------------------------------------
(* block_all, refresh_all_data and get_services_summary: the operations     *)
(* that enumerate self.users. A dict is enumerated in the insertion order   *)
(* of its keys, which the function users does not record: the enumeration   *)
(* takes any order of the keys, the same for the whole call.                *)

KeyOrders ==
    {s \in [1..Cardinality(DOMAIN users) -> DOMAIN users] : Range(s) = DOMAIN users}

\* the position of key u in the enumeration keys, 0 before the first
PositionOf(keys, u) ==
    IF u \in Range(keys) THEN CHOOSE i \in 1..Len(keys) : keys[i] = u ELSE 0

BlockAllArgs(keys, refresh) ==
    [ids |-> keys, batch_size |-> 0, n_process |-> 0, refresh |-> refresh]

\* block_all(refresh): all_users = self.users.values()
BlockAll(refresh) ==
    /\ Begin("block_all", "none")
    /\ \E keys \in KeyOrders : args' = BlockAllArgs(keys, refresh)
    /\ outcome' = "running"
    /\ calls' = <<>>
    /\ pc' = "block_all"
    /\ it' = 0
    /\ active_cards' = <<>>
    /\ runs' = <<>>
    /\ UNCHANGED users

\* for user in all_users: self.cancel_account(user=user). A value that is
\* None has no attribute user_id: line 369 raises AttributeError.
BlockAllNext ==
    /\ pc = "block_all"
    /\ PositionOf(args.ids, target) < Len(args.ids)
    /\ LET u == args.ids[PositionOf(args.ids, target) + 1]
       IN  /\ target' = u
           /\ IF users[u] = None
              THEN End(TRUE)
              ELSE /\ pc' = "block_mobile"
                   /\ it' = 0
                   /\ active_cards' = <<>>
                   /\ outcome' = outcome
    /\ UNCHANGED <<users, op, pre, calls, runs, args, ret>>

\* cancel_account returns into the loop of block_all
BlockAllCancelReturn ==
    /\ pc = "block_cards"
    /\ op = "block_all"
    /\ it >= Len(active_cards)
    /\ pc' = "block_all"
    /\ it' = 0
    /\ active_cards' = <<>>
    /\ UNCHANGED <<users, op, pre, outcome, calls, target, runs, args, ret>>

\* refresh_all_data: self.create_user_instance on the keys of self.users,
\* when there is one; the dict it returns is dropped (line 364)
StartRefresh(keys) ==
    IF Len(keys) > 0
    THEN /\ pc' = "refresh"
         /\ runs' = <<Started(NewRun(keys, DefaultMobileBatchSize, FALSE, "mobile"))>>
         /\ outcome' = "running"
         /\ it' = 0
         /\ active_cards' = <<>>
    ELSE /\ End(FALSE)
         /\ runs' = <<>>

\* the loop of block_all is over: return, or refresh_all_data first
BlockAllEnd ==
    /\ pc = "block_all"
    /\ PositionOf(args.ids, target) = Len(args.ids)
    /\ IF args.refresh
       THEN StartRefresh(args.ids)
       ELSE End(FALSE) /\ runs' = runs
    /\ UNCHANGED <<users, op, pre, calls, target, args, ret>>

RefreshAllData ==
    /\ Begin("refresh_all_data", "none")
    /\ \E keys \in KeyOrders :
          /\ args' = Args(keys, 0, 0)
          /\ StartRefresh(keys)
    /\ calls' = <<>>
    /\ UNCHANGED users

\* create_user_instance has returned, or raised, inside refresh_all_data
RefreshReturn ==
    /\ pc = "refresh"
    /\ runs[1].phase \in {"done", "raised"}
    /\ End(runs[1].phase = "raised")
    /\ UNCHANGED <<users, op, pre, calls, target, runs, args, ret>>

\* get_services_summary: check_active_services of every value, in order; a
\* value that is None has no such method (line 406 raises AttributeError)
GetServicesSummary ==
    /\ pc = "idle"
    /\ op' = "get_services_summary"
    /\ pre' = users
    /\ target' = "none"
    /\ calls' = <<>>
    /\ runs' = <<>>
    /\ \E keys \in KeyOrders :
          /\ args' = Args(keys, 0, 0)
          /\ IF \E k \in 1..Len(keys) : users[keys[k]] = None
             THEN outcome' = "raised" /\ ret' = None
             ELSE /\ outcome' = "returned"
                  /\ ret' = Some([k \in 1..Len(keys) |->
                                     check_active_services(users[keys[k]][1])])
    /\ UNCHANGED <<users, pc, it, active_cards>>

----------------------------------------------------------------------------
(* SpecStore: the store from its construction on. A batch fetch fills the   *)
(* empty store; cancel_account, block_all (with and without refresh),       *)
(* refresh_all_data, create_user_instance and get_services_summary then     *)
(* run on it, in any order.                                                 *)

NextStore ==
    \/ /\ users = EmptyDict
       /\ \E ids \in SeqsUpTo(UserIds, MaxIds) : \E b \in 1..MaxIds :
             CreateUserInstanceBatch(ids, b, 1)
    \/ \E k \in 1..MaxIds :
          \/ WorkerStart(k)
          \/ MobileStep(k, StoreActiveFlags)
          \/ UserStep(k, StoreAccountResponses, StoreCardResponses)
    \/ BatchMerge
    \/ BatchRaise
    \/ \E u \in UserIds : CancelAccount(u)
    \/ CancelSteps
    \/ \E refresh \in BOOLEAN : BlockAll(refresh)
    \/ BlockAllNext
    \/ BlockAllCancelReturn
    \/ BlockAllEnd
    \/ RefreshAllData
    \/ RefreshReturn
    \/ \E u \in UserIds : CreateUserInstance(<<u>>)
    \/ FetchReturn
    \/ GetServicesSummary

SpecStore == Init /\ [][NextStore]_vars

----------------------------------------------------------------------------
\* C14: in every store that fetches and cancels can produce, block_all
\* returns without an exception after cancelling every record of the store
\* (its loop has reached the last key), and get_services_summary returns
\* without an exception one summary per entry of the store.
C14_BlockAllCompletes ==
    /\ (op = "block_all" /\ pc = "idle") =>
          /\ outcome = "returned"
          /\ PositionOf(args.ids, target) = Len(args.ids)
          /\ Range(args.ids) = DOMAIN pre
    /\ op = "get_services_summary" =>
          /\ outcome = "returned"
          /\ Len(ret[1]) = Cardinality(DOMAIN pre)

----------------------------------------------------------------------------
\* the calls that have run create_user_instance once and have returned
FetchedOnce ==
    /\ op \in {"create_user_instance", "refresh_all_data", "block_all"}
    /\ pc = "idle"
    /\ outcome = "returned"
    /\ Len(runs) = 1

\* C15: when a fetch has returned, the store entry of every user it fetched
\* successfully is the record just fetched: after create_user_instance, after
\* the re-fetch of refresh_all_data and of block_all(refresh=True), and after
\* create_user_instance_batch (the record of the last chunk that holds the
\* user).
C15_StoreHoldsFetched ==
    /\ FetchedOnce =>
          \A u \in DOMAIN runs[1].instances :
              runs[1].instances[u] # None =>
                  u \in DOMAIN users /\ users[u] = runs[1].instances[u]
    /\ (op = "create_user_instance_batch" /\ pc = "idle" /\ outcome = "returned") =>
          \A u \in UserIds :
              LET holding == {k \in 1..Len(ret[1]) : u \in DOMAIN ret[1][k]}
                  last == CHOOSE k \in holding : \A j \in holding : j <= k
              IN  (holding # {} /\ ret[1][last][u] # None) =>
                      u \in DOMAIN users /\ users[u] = ret[1][last][u]

----------------------------------------------------------------------------
(* SpecBatch: one batch fetch, on the empty store or on a store that an     *)
(* earlier fetch has filled, with every order of the steps of the pool's    *)
(* processes.                                                               *)

InitBatch ==
    /\ users \in {EmptyDict,
                  ("u2" :> Some(UserAccount("u2", "not_found", <<>>, "True", <<>>)))}
    /\ Quiet

NextBatch ==
    \/ /\ op = "none"
       /\ \E ids \in SeqsUpTo(UserIds, MaxIds) :
          \E b \in 1..MaxIds, n \in 1..MaxProcesses :
             CreateUserInstanceBatch(ids, b, n)
    \/ \E k \in 1..MaxIds :
          \/ WorkerStart(k)
          \/ MobileStep(k, StoreActiveFlags)
          \/ UserStep(k, StoreAccountResponses, StoreCardResponses)
    \/ BatchMerge
    \/ BatchRaise

SpecBatch == InitBatch /\ [][NextBatch]_vars

----------------------------------------------------------------------------
InBatch == op = "create_user_instance_batch"

\* the ids activation k has asked the account listing for, in order
LookedUp(k) ==
    [j \in 1..Len(RunCalls(k, "check_account_providers")) |->
        RunCalls(k, "check_account_providers")[j].arg]

\* What the batch fetch keeps, whatever the order in which the pool's
\* processes take their steps: there is one activation per chunk, of that
\* chunk; at most n_process of them are running; each asks for the ids of its
\* chunk one after the other, each once; none writes self.users; the dicts
\* of two chunks share no key; and after the merge the store is the store of
\* before, updated with every chunk's dict.
BatchIsolation ==
    /\ Len(runs) = Len(Chunks(args.ids, args.batch_size))
    /\ \A k \in 1..Len(runs) :
          /\ runs[k].ids = Chunks(args.ids, args.batch_size)[k]
          /\ LookedUp(k) = SubSeq(runs[k].ids, 1, runs[k].i)
          /\ runs[k].phase = "done" => LookedUp(k) = runs[k].ids
          /\ runs[k].phase = "waiting" => runs[k].calls = <<>>
          /\ DOMAIN runs[k].instances \subseteq Range(runs[k].ids)
    /\ Cardinality(Running) <= args.n_process
    /\ pc = "batch" => users = pre
    /\ \A j, k \in 1..Len(runs) :
          j # k => DOMAIN runs[j].instances \cap DOMAIN runs[k].instances = {}
    /\ (pc = "idle" /\ outcome = "raised") => users = pre
    /\ (pc = "idle" /\ outcome = "returned") =>
          /\ ret[1] = [k \in 1..Len(runs) |-> runs[k].instances]
          /\ DOMAIN users = DOMAIN pre \cup Range(args.ids)
          /\ \A u \in DOMAIN users :
                IF \E k \in 1..Len(runs) : u \in DOMAIN runs[k].instances
                THEN \A k \in 1..Len(runs) :
                        u \in DOMAIN runs[k].instances => users[u] = runs[k].instances[u]
                ELSE users[u] = pre[u]

\* C16, for every batch fetch: the above holds whatever ids are passed.
C16_MergeWithoutCollision ==
    InBatch => BatchIsolation

\* C16, for distinct ids: the above holds for every batch fetch whose ids
\* are pairwise different.
C16_MergeOfDistinctIds ==
    (InBatch /\ NoDuplicates(args.ids)) => BatchIsolation

\* two chunks of one id each, taken by two processes: the second has
\* returned its dict while the first, which has made its entitlement request,
\* is still in its loop; the store is untouched
C16_Witness ==
    /\ InBatch
    /\ pc = "batch"
    /\ args = Args(<<"u1", "u2">>, 1, 2)
    /\ runs[1].phase = "users"
    /\ runs[1].calls # <<>>
    /\ runs[2].phase = "done"
    /\ runs[2].instances["u2"] # None
    /\ users = pre

----------------------------------------------------------------------------
\* the calls of the running call that name the card klrid
CardCallsFor(klrid) ==
    SelectSeq(calls, LAMBDA c :
        \/ c.fn = "delete_virtual_card" /\ c.arg = klrid
        \/ c.fn = "update_card_status" /\ c.arg[1] = klrid)

\* C17: during and after cancel_account the store has the same keys and the
\* record is still under its key; its user_id and parabilium_account_id are
\* unchanged; it has the same cards in the same order with the same ids, types
\* and owners; a card that was not active has its status unchanged and no
\* gateway call was issued for it; and the only gateway functions called are
\* the revoke, the deactivate and the two card calls.
C17_CancelFrame ==
    InCancel =>
        /\ DOMAIN users = DOMAIN pre
        /\ \A u \in DOMAIN users : u # target => users[u] = pre[u]
        /\ users[target] # None
        /\ Now.user_id = Before.user_id
        /\ Now.user_id = target
        /\ Now.parabilium_account_id = Before.parabilium_account_id
        /\ Len(Now.cards) = Len(Before.cards)
        /\ \A i \in 1..Len(Before.cards) :
              /\ Now.cards[i].klrid = Before.cards[i].klrid
              /\ Now.cards[i].card_type = Before.cards[i].card_type
              /\ Now.cards[i].user_id = Before.cards[i].user_id
              /\ ~IsActiveCard(Before.cards[i]) =>
                    /\ Now.cards[i] = Before.cards[i]
                    /\ CardCallsFor(Before.cards[i].klrid) = <<>>
        /\ \A k \in 1..Len(calls) :
              calls[k].fn \in {"block_mobile_access", "block_spei",
                               "delete_virtual_card", "update_card_status"}

\* a cancel of a record with a DELETED card and an ACTIVE one: the first is
\* left alone, the second is cancelled by the only card call
C17_Witness ==
    /\ AfterCancel
    /\ outcome = "returned"
    /\ Len(Before.cards) = 2
    /\ Before.cards[1].card_status = "DELETED"
    /\ Before.cards[2].card_status = "ACTIVE" /\ Before.cards[2].card_type = "VIRTUAL"
    /\ Now.cards[1] = Before.cards[1]
    /\ Now.cards[2].card_status = "CANCELED"
    /\ CardCallsFor(Before.cards[1].klrid) = <<>>
    /\ Len(CardCallsFor(Before.cards[2].klrid)) = 1

----------------------------------------------------------------------------
\* C18: active_spei of every record that create_user_instance has built
\* holds no id twice, whatever the account listing was, and neither does
\* active_spei of a record under cancel_account.
C18_RailsHoldNoIdTwice ==
    /\ InFetch =>
          \A u \in DOMAIN runs[1].instances :
              runs[1].instances[u] # None =>
                  NoDuplicates(runs[1].instances[u][1].active_spei)
    /\ (InCancel /\ NoDuplicates(Before.active_spei)) => NoDuplicates(Now.active_spei)

----------------------------------------------------------------------------
\* C19, for every transition: after a card transition, the status is what it was before
\* only if the transition's gateway call failed.
C19_UnchangedMeansFailure ==
    AfterCardOp =>
        (CardNow.card_status = CardBefore.card_status =>
            calls # <<>> /\ calls[1].o # Ok)

\* C19, by target status: after a card transition that issues a gateway call, on a
\* card whose status was not already the transition's target status, the
\* status is what it was before if and only if the call failed; on a card
\* that already had the target status the status is unchanged whatever the
\* outcome, and delete on a card that is not VIRTUAL issues no call and leaves
\* the status as it was.
C19_StatusTellsOutcome ==
    AfterCardOp =>
        LET t == Target(op, CardBefore)
            skipped == op = "delete" /\ CardBefore.card_type # "VIRTUAL"
            same == CardNow.card_status = CardBefore.card_status
        IN  IF skipped THEN calls = <<>> /\ same
            ELSE /\ Len(calls) = 1
                 /\ IF CardBefore.card_status = t[3] THEN same
                    ELSE same <=> calls[1].o # Ok

\* frozen on an ACTIVE card whose call was answered with an HTTP error: the
\* card is still ACTIVE
C19_Witness ==
    /\ AfterCardOp
    /\ op = "frozen"
    /\ CardBefore.card_status = "ACTIVE"
    /\ calls = <<Call("update_card_status", <<CardBefore.klrid, "FROZEN">>, HttpError)>>
    /\ CardNow.card_status = "ACTIVE"

----------------------------------------------------------------------------
(* SpecCancelCards: cancel_account, repeatedly, on a record whose cards     *)
(* have any of the thirteen statuses and either type.                       *)

InitCancelCards ==
    /\ users \in {("u1" :> Some(UserAccount("u1", a, rails, "False", c))) :
                     a \in ParabiliumIds, rails \in {<<>>, <<"r1">>},
                     c \in Cards("u1", MaxCards, CardStatuses)}
    /\ Quiet

SpecCancelCards == InitCancelCards /\ [][NextCancel]_vars

----------------------------------------------------------------------------
\* the card calls of the running call
CardCalls ==
    SelectSeq(calls, LAMBDA c : c.fn \in {"delete_virtual_card", "update_card_status"})

\* every card that was active when cancel_account started has had its cancel
\* call, and the call succeeded
EveryCardCallSucceeded ==
    \A i \in 1..Len(Before.cards) :
        IsActiveCard(Before.cards[i]) =>
            Succeeded(CancelCallOf(Before.cards[i])[1], CancelCallOf(Before.cards[i])[2])

\* C20: after a cancel_account in which the cancel call of every active card
\* succeeded, the record has no active card: get_active_cards is empty and
\* check_active_services reports has_active_cards false, whatever the cards'
\* statuses and types were; and a cancel_account on a record without an
\* active card (such as a second cancel after that one) issues no card call.
C20_NoActiveCardAfterCancel ==
    /\ (AfterCancel /\ EveryCardCallSucceeded) =>
          /\ get_active_cards(Now) = <<>>
          /\ ~check_active_services(Now).has_active_cards
          /\ \A i \in 1..Len(Now.cards) :
                Now.cards[i].card_status \notin
                    {"ACTIVE", "FROZEN", "ACTIVATED_NO_PIN", "CREATED", "SHIPPED"}
    /\ (InCancel /\ get_active_cards(Before) = <<>>) => CardCalls = <<>>

\* a cancel of a record with an ACTIVE PHYSICAL card and a FROZEN VIRTUAL
\* one, both calls successful: no card is active afterwards
C20_Witness ==
    /\ AfterCancel
    /\ Len(Before.cards) = 2
    /\ Before.cards[1].card_type = "PHYSICAL" /\ Before.cards[1].card_status = "ACTIVE"
    /\ Before.cards[2].card_type = "VIRTUAL" /\ Before.cards[2].card_status = "FROZEN"
    /\ Len(CardCalls) = 2
    /\ EveryCardCallSucceeded
    /\ get_active_cards(Now) = <<>>

====
